---- MODULE Spec2Model ----
(***************************************************************************)
(* Model of the CSV mean-imputation service in                             *)
(* src/resources/activities/Claude Example/app.py.                         *)
(*                                                                         *)
(* State: the upload folder (file name -> stored CSV table), the last      *)
(* request and the last response.  One action per Flask handler.           *)
(*                                                                         *)
(* Abstractions, all stated here:                                          *)
(*  - a CSV token is already classified as missing, a number or text (the  *)
(*    tokenising of read_csv is not modelled); numbers are exact rationals *)
(*    n/d in lowest terms, so int64 and float64 are one dtype "number"     *)
(*    and double rounding of the mean is not modelled;                     *)
(*  - every stored file has the columns ColNames;                          *)
(*  - one upload name is followed: the handler names an upload by its      *)
(*    timestamp, and the model reuses the name once the folder is empty;   *)
(*    clients ask to process the upload or its processed file, and to      *)
(*    clean up no file, one file or every file;                            *)
(*  - processed_df[col].fillna(mean_value, inplace=True) is a chained       *)
(*    assignment: pandas writes it through to processed_df without         *)
(*    copy-on-write and leaves processed_df as it was with copy-on-write   *)
(*    (the default from pandas 3).  The repository pins no pandas version, *)
(*    so a run takes either outcome (writes_through).                      *)
(***************************************************************************)
EXTENDS Integers, Sequences, FiniteSets, TLC

\* ---------------------------------------------------------------- bounds
MaxRows == 2         \* rows of an uploaded table, in Spec
EngineMaxRows == 3   \* rows of the table, in SpecProcess and SpecStats
HeadLimit == 1       \* the preview's head(50), scaled to MaxRows

ColNames == <<"a", "b">>
ColSet == {ColNames[i] : i \in 1..Len(ColNames)}

\* ---------------------------------------------------------------- cells
RECURSIVE Gcd(_, _)
Gcd(a, b) == IF b = 0 THEN a ELSE Gcd(b, a % b)

Abs(x) == IF x < 0 THEN -x ELSE x

NaN == [k |-> "nan", n |-> 0, d |-> 1, s |-> ""]
None == [k |-> "none", n |-> 0, d |-> 1, s |-> ""]
Str(s) == [k |-> "str", n |-> 0, d |-> 1, s |-> s]
\* the number n/d (d > 0) in lowest terms
Q(n, d) == LET g == Gcd(Abs(n), d)
           IN  [k |-> "num", n |-> n \div g, d |-> d \div g, s |-> ""]
Num(n) == Q(n, 1)

isna(v) == v.k = "nan"

Cells == {NaN, Num(1), Num(2), Str("x")}

\* ---------------------------------------------------------------- tables
SeqsOfLen(S, n) == [1..n -> S]

\* a parseable CSV file: a header and rectangular rows, kept by column
TablesUpTo(maxRows) ==
    UNION {[columns : {ColNames}, data : [ColSet -> SeqsOfLen(Cells, n)]] : n \in 0..maxRows}

Tables == TablesUpTo(MaxRows)
EngineTables == TablesUpTo(EngineMaxRows)

NRows(t) == Len(t.data[t.columns[1]])

\* pd.read_csv's dtype of one column: a column of an empty table is object,
\* a column with only numbers and missing cells (all missing included) is
\* int64 or float64, any other column is object
InferDtypeNeedsNumber(cells) ==
    IF (\E i \in 1..Len(cells) : cells[i].k = "num")
       /\ (\A i \in 1..Len(cells) : cells[i].k \in {"nan", "num"})
    THEN "number"
    ELSE "object"

InferDtype(cells) ==
    IF Len(cells) = 0 THEN "object"
    ELSE IF \A i \in 1..Len(cells) : cells[i].k \in {"nan", "num"} THEN "number"
    ELSE "object"

read_csv(file) ==
    [columns |-> file.columns,
     dtypes  |-> [c \in ColSet |-> InferDtype(file.data[c])],
     data    |-> file.data]

\* DataFrame.to_csv(index=False): the header and the cells, NaN as the empty
\* token; the dtypes are not stored
to_csv(df) == [columns |-> df.columns, data |-> df.data]

\* DataFrame.copy(): a deep copy
DfCopy(df) == df

len(df) == Len(df.data[df.columns[1]])

\* df.select_dtypes(include=[np.number]).columns.tolist()
select_dtypes_all(df) == df.columns

select_dtypes_number(df) == SelectSeq(df.columns, LAMBDA c : df.dtypes[c] = "number")

\* ---------------------------------------------------------------- Series
NotNa(cells) == SelectSeq(cells, LAMBDA v : ~isna(v))

RECURSIVE SumQ(_)
SumQ(vals) ==
    IF Len(vals) = 0 THEN Num(0)
    ELSE LET h == Head(vals)
             r == SumQ(Tail(vals))
         IN  Q(h.n * r.d + r.n * h.d, h.d * r.d)

\* Series.mean(): NaN cells are skipped; NaN when nothing is left
SeriesMeanZeroFill(cells) ==
    IF Len(cells) = 0 THEN NaN
    ELSE LET s == SumQ(NotNa(cells)) IN Q(s.n, s.d * Len(cells))

SeriesMean(cells) ==
    LET vals == NotNa(cells)
    IN  IF Len(vals) = 0 THEN NaN
        ELSE LET s == SumQ(vals) IN Q(s.n, s.d * Len(vals))

\* Series.isna().any()
AnyNa(cells) == \E i \in 1..Len(cells) : isna(cells[i])

\* Series.isna().sum()
NaCount(cells) == Cardinality({i \in 1..Len(cells) : isna(cells[i])})

\* Series.fillna(value)
fillna(cells, value) == [i \in 1..Len(cells) |-> IF isna(cells[i]) THEN value ELSE cells[i]]

\* ---------------------------------------------------------------- engine
Range(seq) == {seq[i] : i \in 1..Len(seq)}

\* processed_df[col].fillna(value, inplace=True): the column of processed_df
\* is filled when the chained assignment writes through
fillna_inplace(processed_df, col, value, writes_through) ==
    IF writes_through
    THEN [processed_df EXCEPT !.data[col] = fillna(@, value)]
    ELSE processed_df

\* the loop of process_file over numeric_columns: a column with a missing
\* cell is filled with its mean, unless the mean itself is NaN
RECURSIVE ImputeLoop(_, _, _)
ImputeLoop(processed_df, cols, writes_through) ==
    IF Len(cols) = 0 THEN processed_df
    ELSE LET col == Head(cols)
             mean_value == SeriesMean(processed_df.data[col])
             filled ==
                 IF AnyNa(processed_df.data[col]) /\ ~isna(mean_value)
                 THEN fillna_inplace(processed_df, col, mean_value, writes_through)
                 ELSE processed_df
         IN  ImputeLoop(filled, Tail(cols), writes_through)

\* int(original_df[col].isna().sum())
missing_count_processed(original_df, processed_df, col) == NaCount(processed_df.data[col])

missing_count(original_df, processed_df, col) == NaCount(original_df.data[col])

\* float(mean_val) if not pd.isna(mean_val) else 0.0
column_mean(original_df, col) ==
    LET mean_val == SeriesMean(original_df.data[col])
    IN  IF ~isna(mean_val) THEN mean_val ELSE Num(0)

\* stats['total_imputations'] += missing_count, over the loop
RECURSIVE total_imputations(_, _, _)
total_imputations(original_df, processed_df, cols) ==
    IF Len(cols) = 0 THEN 0
    ELSE missing_count(original_df, processed_df, Head(cols))
         + total_imputations(original_df, processed_df, Tail(cols))

\* round(x, 2) of x = num / den * 100, as a number of hundredths; Python
\* rounds a tie to the even neighbour
Round2Floor(num, den) == (num * 10000) \div den

Round2(num, den) ==
    LET h == num * 10000
        q == h \div den
        r == h % den
    IN  IF 2 * r > den THEN q + 1
        ELSE IF 2 * r < den THEN q
        ELSE IF q % 2 = 0 THEN q ELSE q + 1

missing_data_rate(total, total_numeric_cells) ==
    IF total_numeric_cells > 0 THEN Q(Round2(total, total_numeric_cells), 100)
    ELSE Num(0)

calculate_imputation_stats(original_df, processed_df, numeric_columns) ==
    LET total == total_imputations(original_df, processed_df, numeric_columns)
        total_numeric_cells == len(original_df) * Len(numeric_columns)
    IN  [total_rows        |-> len(original_df),
         total_columns     |-> Len(original_df.columns),
         numeric_columns   |-> Len(numeric_columns),
         column_means      |-> [c \in Range(numeric_columns) |-> column_mean(original_df, c)],
         imputed_counts    |-> [c \in Range(numeric_columns) |->
                                    missing_count(original_df, processed_df, c)],
         total_imputations |-> total,
         missing_data_rate |-> missing_data_rate(total, total_numeric_cells)]

Min(a, b) == IF a < b THEN a ELSE b

\* Series.head(n) / DataFrame.head(n)
head(cells, n) == SubSeq(cells, 1, Min(n, Len(cells)))

\* one preview value: NaN -> None, a number -> int / float, the rest -> str
PreviewValue(value) ==
    IF isna(value) THEN None
    ELSE IF value.k = "num" THEN value
    ELSE Str(value.s)

\* preview_data: the first HeadLimit rows of processed_df, a dict per row
preview_data(processed_df) ==
    [i \in 1..Min(HeadLimit, len(processed_df)) |->
        [c \in Range(processed_df.columns) |-> PreviewValue(processed_df.data[c][i])]]

\* imputation_flags[col] = [bool(x) for x in original_df[col].isna().head(50)]
imputation_flags_processed(original_df, processed_df, numeric_columns) ==
    [c \in Range(numeric_columns) |->
        head([i \in 1..len(processed_df) |-> isna(processed_df.data[c][i])], HeadLimit)]

imputation_flags(original_df, processed_df, numeric_columns) ==
    [c \in Range(numeric_columns) |->
        head([i \in 1..len(original_df) |-> isna(original_df.data[c][i])], HeadLimit)]

\* ---------------------------------------------------------------- files
\* the name upload_file stores an upload under: f"{timestamp}_{filename}"
UploadName == <<"ts_", "data.csv">>

\* f"processed_{filename}"
ProcessedName(filename) == <<"processed_">> \o filename

\* the names a client asks to process, and the names the folder can then hold
ProcessNames == {UploadName, ProcessedName(UploadName)}
AllNames == ProcessNames \cup {ProcessedName(n) : n \in ProcessNames}

\* the filenames lists a client asks to clean up
CleanupLists == {{}, AllNames} \cup {{n} : n \in AllNames}

\* what a client sends as file.filename: stem and extension, or nothing
ClientNames == {<<>>, <<"data", "csv">>, <<"data", "CSV">>, <<"data", "txt">>, <<"data">>}

Lower(s) == IF s = "CSV" THEN "csv" ELSE s

\* '.' in filename and filename.rsplit('.', 1)[1].lower() == 'csv'
allowed_file(filename) == Len(filename) >= 2 /\ Lower(filename[Len(filename)]) = "csv"

\* the bytes of an upload: a parseable table, or bytes read_csv rejects
BadCsv == [columns |-> <<>>, data |-> <<>>]
Parseable(file) == Len(file.columns) > 0

exists(fs, name) == name \in DOMAIN fs
Put(fs, name, file) == [n \in DOMAIN fs \cup {name} |-> IF n = name THEN file ELSE fs[n]]
Remove(fs, names) == [n \in DOMAIN fs \ names |-> fs[n]]

\* ---------------------------------------------------------------- responses
NoStats == [total_rows |-> 0, total_columns |-> 0, numeric_columns |-> 0,
            column_means |-> <<>>, imputed_counts |-> <<>>,
            total_imputations |-> 0, missing_data_rate |-> Num(0)]

NoResp == [op |-> "none", code |-> 0, error |-> "",
           stats |-> NoStats, preview_data |-> <<>>, imputation_flags |-> <<>>,
           processed_filename |-> <<>>, numeric_columns |-> <<>>,
           rows |-> 0, columns |-> 0, column_names |-> <<>>,
           attachment |-> BadCsv, download_name |-> <<>>, cleaned_files |-> {}]

\* the last request: the handler and the file name it was asked for
NoReq == [op |-> "none", filename |-> <<>>]
Req(op, filename) == [op |-> op, filename |-> filename]

Error(op, code, msg) == [NoResp EXCEPT !.op = op, !.code = code, !.error = msg]

\* ---------------------------------------------------------------- handlers
\* each handler maps the folder and the request to the folder and the response

health_check(fs) == [files |-> fs, resp |-> [NoResp EXCEPT !.op = "health", !.code = 200]]

upload_file(fs, has_file, filename, content) ==
    IF ~has_file THEN [files |-> fs, resp |-> Error("upload", 400, "No file provided")]
    ELSE IF filename = <<>> THEN [files |-> fs, resp |-> Error("upload", 400, "No file selected")]
    ELSE IF ~allowed_file(filename)
    THEN [files |-> fs, resp |-> Error("upload", 400, "Only CSV files are allowed")]
    ELSE LET saved == Put(fs, UploadName, content)
         IN  IF Parseable(content)
             THEN LET df == read_csv(content)
                  IN  [files |-> saved,
                       resp  |-> [NoResp EXCEPT !.op = "upload", !.code = 200,
                                                !.rows = len(df),
                                                !.columns = Len(df.columns),
                                                !.column_names = df.columns]]
             ELSE [files |-> Remove(saved, {UploadName}),
                   resp  |-> Error("upload", 400, "Invalid CSV file")]

process_file(fs, has_filename, filename, writes_through) ==
    IF ~has_filename THEN [files |-> fs, resp |-> Error("process", 400, "Filename not provided")]
    ELSE IF ~exists(fs, filename) THEN [files |-> fs, resp |-> Error("process", 404, "File not found")]
    ELSE LET original_df == read_csv(fs[filename])
             processed_df0 == DfCopy(original_df)
             numeric_columns == select_dtypes_number(processed_df0)
         IN  IF numeric_columns = <<>>
             THEN [files |-> fs,
                   resp  |-> Error("process", 400, "No numeric columns found for imputation")]
             ELSE LET processed_df == ImputeLoop(processed_df0, numeric_columns, writes_through)
                      stats == calculate_imputation_stats(original_df, processed_df, numeric_columns)
                      processed_filename == ProcessedName(filename)
                  IN  [files |-> Put(fs, processed_filename, to_csv(processed_df)),
                       resp  |-> [NoResp EXCEPT
                                    !.op = "process", !.code = 200,
                                    !.stats = stats,
                                    !.preview_data = preview_data(processed_df),
                                    !.imputation_flags =
                                        imputation_flags(original_df, processed_df, numeric_columns),
                                    !.processed_filename = processed_filename,
                                    !.numeric_columns = numeric_columns]]

\* f"imputed_{filename.replace('processed_', '').split('_', 1)[1]}"
download_name(filename) ==
    <<"imputed_">> \o Tail(SelectSeq(filename, LAMBDA tok : tok # "processed_"))

download_file(fs, filename) ==
    IF ~exists(fs, filename) THEN [files |-> fs, resp |-> Error("download", 404, "File not found")]
    ELSE [files |-> fs,
          resp  |-> [NoResp EXCEPT !.op = "download", !.code = 200,
                                   !.attachment = fs[filename],
                                   !.download_name = download_name(filename)]]

cleanup_files(fs, has_body, filenames) ==
    IF ~has_body THEN [files |-> fs, resp |-> Error("cleanup", 500, "Cleanup failed")]
    ELSE [files |-> Remove(fs, filenames),
          resp  |-> [NoResp EXCEPT !.op = "cleanup", !.code = 200,
                                   !.cleaned_files = filenames \cap DOMAIN fs]]

\* ---------------------------------------------------------------- state machine
VARIABLES files, req, resp
vars == <<files, req, resp>>

Init == files = <<>> /\ req = NoReq /\ resp = NoResp

Apply(r, out) == req' = r /\ files' = out.files /\ resp' = out.resp

HealthCheck ==
    Apply(Req("health", <<>>), health_check(files))

\* an upload gets a fresh timestamped name; the model follows one name and
\* takes the next upload once the folder is empty
UploadFile ==
    /\ DOMAIN files = {}
    /\ \E has_file \in BOOLEAN, filename \in ClientNames :
         \E content \in (IF has_file /\ allowed_file(filename) THEN Tables ELSE {}) \cup {BadCsv} :
           Apply(Req("upload", <<>>), upload_file(files, has_file, filename, content))

ProcessFile ==
    \E has_filename, writes_through \in BOOLEAN :
      \E filename \in (IF has_filename THEN ProcessNames ELSE {<<>>}) :
        Apply(Req("process", filename),
              process_file(files, has_filename, filename, writes_through))

DownloadFile ==
    \E filename \in AllNames :
        Apply(Req("download", filename), download_file(files, filename))

CleanupFiles ==
    \E has_body \in BOOLEAN :
      \E filenames \in (IF has_body THEN CleanupLists ELSE {{}}) :
        Apply(Req("cleanup", <<>>), cleanup_files(files, has_body, filenames))

Next == HealthCheck \/ UploadFile \/ ProcessFile \/ DownloadFile \/ CleanupFiles

Spec == Init /\ [][Next]_vars

\* One processing run and its re-run, on every table of up to EngineMaxRows
\* rows: the folder after the upload of the table, then process_file alone.
InitProcess ==
    \E t \in EngineTables :
        LET out == upload_file(<<>>, TRUE, <<"data", "csv">>, t)
        IN  files = out.files /\ req = Req("upload", <<>>) /\ resp = out.resp

NextProcess == ProcessFile

SpecProcess == InitProcess /\ [][NextProcess]_vars

\* calculate_imputation_stats as a function: the table is the one file of the
\* folder, numeric_columns is any sub-list of its numeric columns (the empty
\* list and the empty table included), processed_df is the imputed copy.
SubLists(cols) == {SelectSeq(cols, LAMBDA c : c \in S) : S \in SUBSET Range(cols)}

InitStats ==
    \E t \in EngineTables :
      \E cols \in SubLists(select_dtypes_number(read_csv(t))) :
        /\ files = Put(<<>>, UploadName, t)
        /\ req = Req("stats_args", UploadName)
        /\ resp = [NoResp EXCEPT !.op = "stats_args", !.numeric_columns = cols]

CallStats ==
    /\ req.op = "stats_args"
    /\ \E writes_through \in BOOLEAN :
       LET original_df == read_csv(files[UploadName])
           numeric_columns == resp.numeric_columns
           processed_df == ImputeLoop(DfCopy(original_df), numeric_columns, writes_through)
       IN  /\ resp' = [resp EXCEPT !.op = "stats",
                         !.stats = calculate_imputation_stats(original_df, processed_df,
                                                              numeric_columns)]
           /\ req' = Req("stats", UploadName)
           /\ UNCHANGED files

NextStats == CallStats

SpecStats == InitStats /\ [][NextStats]_vars

\* ---------------------------------------------------------------- claims
\* the last request was a processing run that returned success
ProcessOk == req.op = "process" /\ resp.code = 200
\* the table the run read, and the table it stored
OrigFile == files[req.filename]
ProcFile == files[resp.processed_filename]
\* the run found its file and classified the columns
Classified ==
    /\ req.op = "process"
    /\ resp.code = 200 \/ resp.error = "No numeric columns found for imputation"

Rows(t) == 1..NRows(t)
NumericCols == Range(resp.numeric_columns)

\* columns with at least one number and no text, in declared order
ColumnsWithNumber(t) ==
    SelectSeq(t.columns, LAMBDA c : /\ \E i \in Rows(t) : t.data[c][i].k = "num"
                                    /\ \A i \in Rows(t) : t.data[c][i].k \in {"num", "nan"})

\* columns of a table with rows that hold no text, in declared order
ColumnsWithoutText(t) ==
    SelectSeq(t.columns, LAMBDA c : /\ NRows(t) > 0
                                    /\ \A i \in Rows(t) : t.data[c][i].k \in {"num", "nan"})

AllMissing(t, c) == NRows(t) > 0 /\ \A i \in Rows(t) : isna(t.data[c][i])

\* C1: after a successful run no cell of a numeric column of the processed
\* table is missing, also when the column had no value at all.
C1_NoMissingLeft ==
    ProcessOk => \A c \in NumericCols : \A i \in Rows(ProcFile) : ~isna(ProcFile.data[c][i])

\* C2 as claimed: the numeric columns are exactly the columns with at least one
\* number and no text; an all-missing column is not among them and has no entry
\* in the report.
C2_Original ==
    Classified =>
        /\ resp.numeric_columns = ColumnsWithNumber(OrigFile)
        /\ DOMAIN resp.stats.column_means = Range(ColumnsWithNumber(OrigFile))
        /\ DOMAIN resp.stats.imputed_counts = Range(ColumnsWithNumber(OrigFile))
        /\ resp.stats.numeric_columns = Len(ColumnsWithNumber(OrigFile))

\* C2 amended: the numeric columns are exactly the columns of a table with at
\* least one row whose every non-missing cell is a number, in declared order;
\* an all-missing column is among them, has a column_means and an
\* imputed_counts entry and counts toward numeric_column_count.
C2_NumericColumns ==
    Classified =>
        /\ resp.numeric_columns = ColumnsWithoutText(OrigFile)
        /\ DOMAIN resp.stats.column_means = Range(ColumnsWithoutText(OrigFile))
        /\ DOMAIN resp.stats.imputed_counts = Range(ColumnsWithoutText(OrigFile))
        /\ resp.stats.numeric_columns = Len(ColumnsWithoutText(OrigFile))
        /\ \A c \in ColSet : AllMissing(OrigFile, c) =>
               /\ c \in NumericCols
               /\ resp.stats.column_means[c] = Num(0)
               /\ resp.stats.imputed_counts[c] = NRows(OrigFile)

C2_Witness ==
    /\ ProcessOk
    /\ AllMissing(OrigFile, "a") /\ "a" \in NumericCols
    /\ "b" \notin NumericCols

\* the run failed with the no-numeric-columns error: no report, no stored table
NoNumericFailure ==
    /\ resp.code = 400
    /\ resp.error = "No numeric columns found for imputation"
    /\ resp.stats = NoStats /\ resp.processed_filename = <<>>
    /\ resp.preview_data = <<>> /\ resp.imputation_flags = <<>>
    /\ ProcessedName(req.filename) \notin DOMAIN files

\* C3 as claimed: a run on a table with no column that has a number (only text
\* columns and all-missing columns) fails with the no-numeric-columns error and
\* stores nothing.
C3_Original ==
    (req.op = "process" /\ exists(files, req.filename) /\ ColumnsWithNumber(OrigFile) = <<>>)
        => NoNumericFailure

\* C3 amended: a run on a table with zero numeric columns (every column holds
\* text, or the table has no rows) fails with the no-numeric-columns error,
\* returns no report and stores no processed table; a table with an all-missing
\* column has a numeric column and the run succeeds.
C3_NoNumericData ==
    (req.op = "process" /\ exists(files, req.filename)) =>
        IF ColumnsWithoutText(OrigFile) = <<>> THEN NoNumericFailure ELSE resp.code = 200

C3_Witness ==
    /\ req.op = "process" /\ exists(files, req.filename)
    /\ NRows(OrigFile) = MaxRows
    /\ ColumnsWithoutText(OrigFile) = <<>>
    /\ NoNumericFailure

\* C4: in a numeric column a processed cell is the original cell where that is
\* present and the reported column mean where it is missing.
C4_CellsCopiedOrMean ==
    ProcessOk =>
        \A c \in NumericCols : \A i \in Rows(OrigFile) :
            ProcFile.data[c][i] = IF isna(OrigFile.data[c][i])
                                  THEN resp.stats.column_means[c]
                                  ELSE OrigFile.data[c][i]

\* the sum of the numbers among cells[1..i], as an unreduced fraction
RECURSIVE FracSum(_, _)
FracSum(cells, i) ==
    IF i = 0 THEN <<0, 1>>
    ELSE LET r == FracSum(cells, i - 1)
             v == cells[i]
         IN  IF v.k = "num" THEN <<r[1] * v.d + v.n * r[2], r[2] * v.d>> ELSE r

\* m is the arithmetic mean of the numbers among cells, 0 when there is none
IsMeanOf(m, cells) ==
    LET cnt == Cardinality({i \in 1..Len(cells) : cells[i].k = "num"})
        sum == FracSum(cells, Len(cells))
    IN  /\ m.k = "num"
        /\ IF cnt = 0 THEN m.n = 0 ELSE m.n * sum[2] * cnt = sum[1] * m.d

\* C5: the reported mean of a numeric column is the arithmetic mean of the
\* non-missing cells of that column in the original table, 0 when it has none.
C5_MeanOfOriginal ==
    ProcessOk => \A c \in NumericCols : IsMeanOf(resp.stats.column_means[c], OrigFile.data[c])

C5_Witness ==
    /\ ProcessOk
    /\ \E c \in NumericCols :
         /\ resp.stats.column_means[c] = Q(3, 2)
         /\ \E i \in Rows(OrigFile) : isna(OrigFile.data[c][i]) /\ ProcFile.data[c][i] = Q(3, 2)

RECURSIVE SetSum(_, _)
SetSum(f, S) == IF S = {} THEN 0 ELSE LET x == CHOOSE x \in S : TRUE IN f[x] + SetSum(f, S \ {x})

\* C6: imputed_counts[c] is the number of missing cells of numeric column c in
\* the original table, and total_imputations is the sum of imputed_counts.
C6_Counts ==
    ProcessOk =>
        /\ \A c \in NumericCols :
              resp.stats.imputed_counts[c]
                  = Cardinality({i \in Rows(OrigFile) : isna(OrigFile.data[c][i])})
        /\ resp.stats.total_imputations
              = SetSum(resp.stats.imputed_counts, DOMAIN resp.stats.imputed_counts)

C6_Witness ==
    /\ ProcessOk
    /\ Len(resp.numeric_columns) = 2
    /\ \A c \in NumericCols : resp.stats.imputed_counts[c] = 1
    /\ resp.stats.total_imputations = 2
    /\ \A c \in NumericCols : \A i \in Rows(ProcFile) : ~isna(ProcFile.data[c][i])

\* C7: missing_data_rate is total_imputations / (total_rows * numeric columns)
\* * 100 to the nearest hundredth, and 0 when that denominator is 0.
C7_MissingDataRate ==
    resp.op = "stats" =>
        LET st == resp.stats
            cells == st.total_rows * st.numeric_columns
            r == st.missing_data_rate
        IN  /\ r.k = "num"
            /\ IF cells = 0 THEN r.n = 0
               ELSE /\ 100 % r.d = 0
                    /\ 2 * Abs(r.n * (100 \div r.d) * cells - st.total_imputations * 10000)
                           <= cells

C7_Witness ==
    /\ resp.op = "stats"
    /\ resp.stats.total_rows = 3 /\ resp.stats.numeric_columns = 1
    /\ resp.stats.total_imputations = 2
    /\ resp.stats.missing_data_rate = Q(6667, 100)

\* C8: running the run again on the processed table succeeds, imputes nothing
\* and stores a table equal to the one it read.
C8_Idempotent ==
    (req.op = "process" /\ req.filename = ProcessedName(UploadName)
                        /\ exists(files, req.filename)) =>
        /\ resp.code = 200
        /\ resp.stats.total_imputations = 0
        /\ \A c \in NumericCols : resp.stats.imputed_counts[c] = 0
        /\ ProcFile = OrigFile

\* a preview value against the processed cell it shows
Shows(shown, cell) == IF isna(cell) THEN shown = None ELSE shown = cell

PreviewLen == Min(HeadLimit, NRows(OrigFile))

\* the preview holds the first min(limit, rows) rows of the processed table
\* and, per numeric column, as many flags, the i-th true exactly when the i-th
\* cell of the original was missing
C9_PreviewInv ==
    ProcessOk =>
        /\ Len(resp.preview_data) = PreviewLen
        /\ \A i \in 1..PreviewLen : \A c \in ColSet :
              Shows(resp.preview_data[i][c], ProcFile.data[c][i])
        /\ DOMAIN resp.imputation_flags = NumericCols
        /\ \A c \in NumericCols :
              /\ Len(resp.imputation_flags[c]) = PreviewLen
              /\ \A i \in 1..PreviewLen :
                    resp.imputation_flags[c][i] = isna(OrigFile.data[c][i])

\* a processing step leaves every stored file but its own output as it was
C9_OriginalKept ==
    req'.op = "process" =>
        \A n \in DOMAIN files : n # resp'.processed_filename =>
            exists(files', n) /\ files'[n] = files[n]

\* C9: after every successful run the preview and the flags are as stated in
\* C9_PreviewInv, and every processing step keeps the stored original.
C9_Preview == [](C9_PreviewInv) /\ [][C9_OriginalKept]_vars

C9_Witness ==
    /\ ProcessOk
    /\ NRows(OrigFile) > HeadLimit
    /\ "a" \in NumericCols
    /\ isna(OrigFile.data["a"][1]) /\ ~isna(ProcFile.data["a"][1])
    /\ resp.imputation_flags["a"][1]

\* C10: a run either succeeds with a processed table stored and no missing cell
\* left in any numeric column, or fails with no report and no processed table.
C10_NoPartialSuccess ==
    req.op = "process" =>
        IF resp.code = 200
        THEN /\ exists(files, resp.processed_filename)
             /\ \A c \in NumericCols : \A i \in Rows(ProcFile) : ~isna(ProcFile.data[c][i])
        ELSE resp.processed_filename = <<>> /\ resp.stats = NoStats

====
